---- MODULE Spec2Model ----
(***************************************************************************)
(* The round-resolution engine of src/app.py (classes Company and          *)
(* SimulationEngine) and the controls of its Streamlit page, as a state    *)
(* machine.                                                                *)
(*                                                                         *)
(* Numbers.  The engine computes with Python floats.  They are modelled    *)
(* here as exact rationals (the binary rounding of a float is not          *)
(* modelled): a rational is a record [neg, num, den] in lowest terms,      *)
(* num a natural number written as a sequence of base-1000 limbs (least    *)
(* significant first, <<>> is zero) and den the ascending sequence of the  *)
(* prime factors of the denominator (<<>> is 1).  The representation is    *)
(* canonical, so two rationals are equal exactly when the records are.     *)
(*                                                                         *)
(* The arithmetic is written as functions, f[x], so that an argument is    *)
(* evaluated once, where it is passed.                                     *)
(***************************************************************************)
EXTENDS Integers, Sequences, FiniteSets

\* ------------------------------------------------------------------------
\* Natural numbers of any size (Python's numbers are not 32-bit)
\* ------------------------------------------------------------------------

Base == 1000

\* the numbers: sequences of limbs
Big == Seq(Nat)

NatToBig[n \in Nat] == IF n = 0 THEN << >> ELSE <<n % Base>> \o NatToBig[n \div Base]

BigToNat[a \in Big] == IF a = << >> THEN 0 ELSE Head(a) + Base * BigToNat[Tail(a)]

BigTrim[a \in Big] ==
    IF a = << >> \/ a[Len(a)] # 0 THEN a ELSE BigTrim[SubSeq(a, 1, Len(a) - 1)]

BigAddCarry[a \in Big, b \in Big, c \in Nat] ==
    IF a = << >> /\ b = << >>
    THEN IF c = 0 THEN << >> ELSE <<c>>
    ELSE <<((IF a = << >> THEN 0 ELSE Head(a)) + (IF b = << >> THEN 0 ELSE Head(b)) + c)
             % Base>>
         \o BigAddCarry[IF a = << >> THEN a ELSE Tail(a),
                        IF b = << >> THEN b ELSE Tail(b),
                        ((IF a = << >> THEN 0 ELSE Head(a))
                         + (IF b = << >> THEN 0 ELSE Head(b)) + c) \div Base]

BigAdd[a \in Big, b \in Big] == BigAddCarry[a, b, 0]

\* a - b for a >= b, before the leading zeros are dropped; c is the borrow
BigSubBorrow[a \in Big, b \in Big, c \in Nat] ==
    IF a = << >> THEN << >>
    ELSE <<(Head(a) - (IF b = << >> THEN 0 ELSE Head(b)) - c + Base) % Base>>
         \o BigSubBorrow[Tail(a), IF b = << >> THEN b ELSE Tail(b),
                         IF Head(a) - (IF b = << >> THEN 0 ELSE Head(b)) - c < 0
                         THEN 1 ELSE 0]

BigSub[a \in Big, b \in Big] == BigTrim[BigSubBorrow[a, b, 0]]

\* -1, 0, 1 as a < b, a = b, a > b, comparing limbs i, i-1, ..., 1
BigCmpFrom[a \in Big, b \in Big, i \in Nat] ==
    IF i = 0 THEN 0
    ELSE IF a[i] < b[i] THEN -1
    ELSE IF a[i] > b[i] THEN 1
    ELSE BigCmpFrom[a, b, i - 1]

BigCmp[a \in Big, b \in Big] ==
    IF Len(a) < Len(b) THEN -1
    ELSE IF Len(a) > Len(b) THEN 1
    ELSE BigCmpFrom[a, b, Len(a)]

\* a * k + c for one limb k (0 <= k < Base)
BigMulLimb[a \in Big, k \in Nat, c \in Nat] ==
    IF a = << >> THEN (IF c = 0 THEN << >> ELSE <<c>>)
    ELSE <<(Head(a) * k + c) % Base>> \o BigMulLimb[Tail(a), k, (Head(a) * k + c) \div Base]

\* a * Base
BigShift[a \in Big] == IF a = << >> THEN a ELSE <<0>> \o a

BigMul[a \in Big, b \in Big] ==
    IF a = << >> \/ b = << >> THEN << >>
    ELSE BigAdd[IF Head(b) = 0 THEN << >> ELSE BigMulLimb[a, Head(b), 0],
                BigShift[BigMul[a, Tail(b)]]]

\* One step of long division by p (1 <= p < 2 * 10^8): the remainder r so far and
\* the next limb, taken one decimal digit at a time so that no product overflows.
DivStep[r \in Nat, limb \in Nat, p \in Nat] ==
    LET t1 == r * 10 + (limb \div 100)
        t2 == (t1 % p) * 10 + ((limb \div 10) % 10)
        t3 == (t2 % p) * 10 + (limb % 10)
    IN  [q |-> (t1 \div p) * 100 + (t2 \div p) * 10 + (t3 \div p), r |-> t3 % p]

\* a mod p, over limbs i, i-1, ..., 1 with remainder r so far
BigModFrom[a \in Big, p \in Nat, i \in Nat, r \in Nat] ==
    IF i = 0 THEN r ELSE BigModFrom[a, p, i - 1, DivStep[r, a[i], p].r]

BigMod[a \in Big, p \in Nat] == BigModFrom[a, p, Len(a), 0]

\* a step of long division: a limb of the quotient and the remainder
Step == [q : Nat, r : Nat]

\* the limbs 1..i of a div p, given the step s made for limb i + 1
BigDivNext[a \in Big, p \in Nat, i \in Nat, s \in Step] ==
    IF i = 0 THEN <<s.q>>
    ELSE Append(BigDivNext[a, p, i - 1, DivStep[s.r, a[i], p]], s.q)

\* the limbs 1..i of a div p, given the remainder r of the limbs above i
BigDivFrom[a \in Big, p \in Nat, i \in Nat, r \in Nat] ==
    IF i = 0 THEN << >> ELSE BigDivNext[a, p, i - 1, DivStep[r, a[i], p]]

BigDiv[a \in Big, p \in Nat] == BigTrim[BigDivFrom[a, p, Len(a), 0]]

\* ------------------------------------------------------------------------
\* Denominators: ascending sequences of primes
\* ------------------------------------------------------------------------

\* the prime factors of n >= 1, none below p
FactorFrom[n \in Nat, p \in Nat] ==
    IF n = 1 THEN << >>
    ELSE IF p * p > n THEN <<n>>
    ELSE IF n % p = 0 THEN <<p>> \o FactorFrom[n \div p, p]
    ELSE FactorFrom[n, p + 1]

Factor[n \in Nat] == FactorFrom[n, 2]

\* the product of two denominators
PMul[d \in Big, e \in Big] ==
    IF d = << >> THEN e
    ELSE IF e = << >> THEN d
    ELSE IF Head(d) <= Head(e) THEN <<Head(d)>> \o PMul[Tail(d), e]
    ELSE <<Head(e)>> \o PMul[d, Tail(e)]

\* the least common multiple of two denominators
PLcm[d \in Big, e \in Big] ==
    IF d = << >> THEN e
    ELSE IF e = << >> THEN d
    ELSE IF Head(d) = Head(e) THEN <<Head(d)>> \o PLcm[Tail(d), Tail(e)]
    ELSE IF Head(d) < Head(e) THEN <<Head(d)>> \o PLcm[Tail(d), e]
    ELSE <<Head(e)>> \o PLcm[d, Tail(e)]

\* m / d for a multiple m of d
PQuot[m \in Big, d \in Big] ==
    IF d = << >> THEN m
    ELSE IF Head(m) = Head(d) THEN PQuot[Tail(m), Tail(d)]
    ELSE <<Head(m)>> \o PQuot[Tail(m), d]

\* the number a denominator stands for
PProd[d \in Big] == IF d = << >> THEN <<1>> ELSE BigMul[PProd[Tail(d)], NatToBig[Head(d)]]

\* ------------------------------------------------------------------------
\* Rationals
\* ------------------------------------------------------------------------

Rat == [neg : BOOLEAN, num : Big, den : Big]

\* a fraction without its sign
Frac == [num : Big, den : Big]

\* a fraction with one more prime p in its denominator
Keep[p \in Nat, c \in Frac] == [num |-> c.num, den |-> <<p>> \o c.den]

\* num / den in lowest terms: every prime of den that divides num is cancelled
Cancel[num \in Big, den \in Big] ==
    IF den = << >> THEN [num |-> num, den |-> den]
    ELSE IF BigMod[num, Head(den)] = 0
         THEN Cancel[BigDiv[num, Head(den)], Tail(den)]
         ELSE Keep[Head(den), Cancel[num, Tail(den)]]

Signed[neg \in BOOLEAN, c \in Frac] ==
    [neg |-> neg, num |-> c.num, den |-> c.den]

RNorm[neg \in BOOLEAN, num \in Big, den \in Big] ==
    IF num = << >> THEN [neg |-> FALSE, num |-> << >>, den |-> << >>]
    ELSE Signed[neg, Cancel[num, den]]

\* the rational p / q of two machine integers, q >= 1
RatOf[p \in Int, q \in Nat] == RNorm[p < 0, NatToBig[IF p < 0 THEN -p ELSE p], Factor[q]]

RInt[n \in Int] == RatOf[n, 1]
RZero == RInt[0]
ROne == RInt[1]

RSign[x \in Rat] == IF x.num = << >> THEN 0 ELSE IF x.neg THEN -1 ELSE 1

RNeg[x \in Rat] == IF x.num = << >> THEN x ELSE [x EXCEPT !.neg = ~x.neg]

\* a / m + b / m or a / m - b / m, as the signs say
AddSigned[xneg \in BOOLEAN, a \in Big, yneg \in BOOLEAN, b \in Big, m \in Big] ==
    IF xneg = yneg THEN RNorm[xneg, BigAdd[a, b], m]
    ELSE IF BigCmp[a, b] = 0 THEN RZero
    ELSE IF BigCmp[a, b] > 0 THEN RNorm[xneg, BigSub[a, b], m]
    ELSE RNorm[yneg, BigSub[b, a], m]

\* x + y over the common denominator m
AddOver[x \in Rat, y \in Rat, m \in Big] ==
    AddSigned[x.neg, BigMul[x.num, PProd[PQuot[m, x.den]]],
              y.neg, BigMul[y.num, PProd[PQuot[m, y.den]]], m]

RAdd[x \in Rat, y \in Rat] == AddOver[x, y, PLcm[x.den, y.den]]

RSub[x \in Rat, y \in Rat] == RAdd[x, RNeg[y]]

RMul[x \in Rat, y \in Rat] == RNorm[x.neg # y.neg, BigMul[x.num, y.num], PMul[x.den, y.den]]

\* 1 / y for y # 0 (the numerator of y is a machine integer wherever this is used)
RInv[y \in Rat] == [neg |-> y.neg, num |-> PProd[y.den], den |-> Factor[BigToNat[y.num]]]

RDiv[x \in Rat, y \in Rat] == RMul[x, RInv[y]]

RLess[x \in Rat, y \in Rat] == RSign[RSub[x, y]] < 0

RMax[x \in Rat, y \in Rat] == IF RLess[x, y] THEN y ELSE x

\* ------------------------------------------------------------------------
\* class Company
\* ------------------------------------------------------------------------

InitialCash == 15000000
BaseLowProfit == 500
BaseHighProfit == 1000
BasePe == 10
MinPe == 5

\* Company.__init__
Company(name) ==
    [name |-> name,
     cash |-> RInt[InitialCash],
     is_bankrupt |-> FALSE,
     ever_had_consecutive_loss |-> FALSE,
     last_round_net_profit |-> RInt[0],
     extra_pe |-> 0,
     mfg_effects |-> << >>,
     soft_effects |-> << >>,
     factory_effects |-> << >>,
     prev_low_share |-> RatOf[1, 4],
     prev_high_share |-> RatOf[1, 4]]

\* the tuples of self.mfg_effects and of self.soft_effects
MfgEffect == [start : Nat, end : Nat, l_b : Nat, h_b : Nat]
SoftEffect == [start : Nat, l_b : Nat, h_b : Nat]

\* a pair of unit-profit bonuses
Bonus == [low : Nat, high : Nat]

\* low_p += l_b; high_p += h_b
AddBonus[b \in Bonus, l_b \in Nat, h_b \in Nat] == [low |-> b.low + l_b, high |-> b.high + h_b]

\* the bonus (l_b, h_b) of the (start, end, l_b, h_b) records in force in a round
MfgBonus[effects \in Seq(MfgEffect), round \in Nat] ==
    IF effects = << >> THEN [low |-> 0, high |-> 0]
    ELSE IF Head(effects).start <= round /\ round <= Head(effects).end
         THEN AddBonus[MfgBonus[Tail(effects), round], Head(effects).l_b, Head(effects).h_b]
         ELSE MfgBonus[Tail(effects), round]

\* the bonus of the (start, l_b, h_b) records in force in a round
SoftBonus[effects \in Seq(SoftEffect), round \in Nat] ==
    IF effects = << >> THEN [low |-> 0, high |-> 0]
    ELSE IF round >= Head(effects).start
         THEN AddBonus[SoftBonus[Tail(effects), round], Head(effects).l_b, Head(effects).h_b]
         ELSE SoftBonus[Tail(effects), round]

\* a faulty variant of get_unit_profit: the end of a Manufacturing window is not
\* tested, the bonus stays for good
get_unit_profit_no_end(comp, round) ==
    [low_p |-> BaseLowProfit
               + SoftBonus[[i \in 1..Len(comp.mfg_effects) |->
                               [start |-> comp.mfg_effects[i].start,
                                l_b |-> comp.mfg_effects[i].l_b,
                                h_b |-> comp.mfg_effects[i].h_b]], round].low
               + SoftBonus[comp.soft_effects, round].low,
     high_p |-> BaseHighProfit
                + SoftBonus[[i \in 1..Len(comp.mfg_effects) |->
                                [start |-> comp.mfg_effects[i].start,
                                 l_b |-> comp.mfg_effects[i].l_b,
                                 h_b |-> comp.mfg_effects[i].h_b]], round].high
                + SoftBonus[comp.soft_effects, round].high]

\* Company.get_unit_profit
get_unit_profit(comp, round) ==
    [low_p |-> BaseLowProfit + MfgBonus[comp.mfg_effects, round].low
                             + SoftBonus[comp.soft_effects, round].low,
     high_p |-> BaseHighProfit + MfgBonus[comp.mfg_effects, round].high
                               + SoftBonus[comp.soft_effects, round].high]

\* the pair get_multiplier_data returns
Multiplier == [mult : Rat, active_from_past : BOOLEAN]

\* mult *= 1.1; active_from_past = True
Enlarge[m \in Multiplier] ==
    [mult |-> RMul[m.mult, RatOf[11, 10]], active_from_past |-> TRUE]

\* the loop of Company.get_multiplier_data: mult *= 1.1 for every factory whose
\* start round is reached
MultiplierFrom[effects \in Seq(Nat), round \in Nat] ==
    IF effects = << >> THEN [mult |-> ROne, active_from_past |-> FALSE]
    ELSE IF round >= effects[Len(effects)]
         THEN Enlarge[MultiplierFrom[SubSeq(effects, 1, Len(effects) - 1), round]]
         ELSE MultiplierFrom[SubSeq(effects, 1, Len(effects) - 1), round]

\* Company.get_multiplier_data
get_multiplier_data(comp, round) == MultiplierFrom[comp.factory_effects, round]

\* Company.get_display_pe
get_display_pe(comp) ==
    IF BasePe + comp.extra_pe > MinPe THEN BasePe + comp.extra_pe ELSE MinPe

\* ------------------------------------------------------------------------
\* class SimulationEngine
\* ------------------------------------------------------------------------

\* self.teams, in the order of the list
teams == <<"Team 1", "Team 2", "Team 3", "Team 4">>
TeamSet == {teams[i] : i \in 1..Len(teams)}

\* the objects of class Company
CompanyType ==
    [name : TeamSet, cash : Rat, is_bankrupt : BOOLEAN,
     ever_had_consecutive_loss : BOOLEAN, last_round_net_profit : Rat, extra_pe : Nat,
     mfg_effects : Seq(MfgEffect), soft_effects : Seq(SoftEffect),
     factory_effects : Seq(Nat), prev_low_share : Rat, prev_high_share : Rat]

\* the dicts the form submits
Decision ==
    [low_ratio : Rat, high_ratio : Rat, vi : {"None", "Manufacturing", "Software"},
     build_factory : BOOLEAN]

\* the dict self.round_decisions, as a sequence of entries
DecisionDict == Seq([team : TeamSet, dec : Decision])

\* self.companies
Companies == [TeamSet -> CompanyType]

\* w_low and w_high: the two weights of every team
WeightDict == [TeamSet -> [low : Rat, high : Rat]]

\* the dicts of round_results
RowType ==
    [Team : TeamSet, Op_Profit : Rat, Net_Profit : Rat, Cash_Balance : Rat,
     Total_Share : Rat, Low_Share : Rat, High_Share : Rat, PE : Nat,
     Factory : {"Yes", "No", "Bankrupt"}, Est_Price : Rat]

\* self.alpha = 0.6
alpha == RatOf[3, 5]

NeededTeams == 4
LastRound == 4
low_market == 80000
high_market == 20000
TotalMarket == 100000
MfgCost == 3000000
SoftCost == 1500000
FactoryCost == 5000000
MfgLowBonus == 100
MfgHighBonus == 200
SoftLowBonus == 5
SoftHighBonus == 10
LossPenalty == 2

VARIABLES
    companies,          \* self.companies: team name -> Company
    current_round,      \* self.current_round
    history,            \* self.history: the round reports, oldest first
    decision_history,   \* self.decision_history: the audit records
    round_decisions,    \* self.round_decisions: a dict, its keys in insertion order
    submitted_teams,    \* self.submitted_teams
    game_over,          \* self.game_over
    ret,                \* what the last engine call returned or raised: "None",
                        \* "True", "False" or "KeyError"
    overwritten,        \* a decision was submitted over an earlier one in the round
                        \* being collected (or, right after a resolution, just resolved)
    out_of_order,       \* in that round a team submitted after a team that comes
                        \* later in self.teams
    pc,                 \* where each operator session is in run_market_logic
    final_scores        \* the table get_final_scores returned last (<< >>: none yet)

engine == <<companies, current_round, history, decision_history,
            round_decisions, submitted_teams, game_over>>
vars == <<companies, current_round, history, decision_history,
          round_decisions, submitted_teams, game_over, ret, overwritten,
          out_of_order, pc, final_scores>>

\* The dict self.round_decisions: a sequence of [team, dec], one entry per key, the
\* keys in insertion order as in a Python dict.
TeamIndex(name) == CHOOSE i \in 1..Len(teams) : teams[i] = name

HasDecision(decisions, name) == \E i \in 1..Len(decisions) : decisions[i].team = name

\* a faulty variant of DecisionOf: the decisions are read in the order they came in,
\* the first for the first team of self.teams
DecisionByPosition(decisions, name) == decisions[TeamIndex(name)].dec

\* self.round_decisions[name]
DecisionOf(decisions, name) ==
    decisions[CHOOSE i \in 1..Len(decisions) : decisions[i].team = name].dec

\* a faulty variant of PutDecision: the decisions kept in a list, a second submission
\* added after the first
PutDecisionAppend(decisions, name, dec) == Append(decisions, [team |-> name, dec |-> dec])

\* self.round_decisions[team_name] = dec
\* (a key that is there keeps its place, a new key goes last)
PutDecision(decisions, name, dec) ==
    IF HasDecision(decisions, name)
    THEN [i \in 1..Len(decisions) |->
             IF decisions[i].team = name THEN [team |-> name, dec |-> dec]
             ELSE decisions[i]]
    ELSE Append(decisions, [team |-> name, dec |-> dec])

\* f"{x:.0%}" without the sign: x as a whole number of percent (the ratios the page
\* submits are multiples of 0.05, so x * 100 is whole)
Percent(x) == BigToNat[RMul[x, RInt[100]].num]

\* one record of the audit loop of run_market_logic
AuditRecord(round, name, d) ==
    [Round |-> round, Team |-> name,
     Low_pct |-> Percent(d.low_ratio), High_pct |-> Percent(d.high_ratio),
     VI |-> d.vi, Factory |-> IF d.build_factory THEN "Yes" ELSE "No"]

\* The records the audit loop appends for a round.  The loop follows the insertion
\* order of the dict; the page sorts the audit by team before it shows it
\* (audit_df.sort_values), and nothing else reads the order of the records of one
\* round, so they are written here in the order of self.teams.
AuditRecords(decisions, round) ==
    LET items == SelectSeq(teams, LAMBDA t : HasDecision(decisions, t))
        d(t) == decisions[CHOOSE i \in 1..Len(decisions) : decisions[i].team = t].dec
    IN  [i \in 1..Len(items) |-> AuditRecord(round, items[i], d(items[i]))]

\* whether the loops of run_market_logic find a decision for every team they read
\* one for (a KeyError otherwise)
DecisionsComplete(comps, decisions) ==
    \A name \in TeamSet : comps[name].is_bankrupt \/ HasDecision(decisions, name)

\* a faulty variant of Weights: the weights of a bankrupt company are not zeroed
WeightsOfAll(comps, decisions, round) ==
    [name \in TeamSet |->
        [low |-> RMul[DecisionOf(decisions, name).low_ratio,
                      get_multiplier_data(comps[name], round).mult],
         high |-> RMul[DecisionOf(decisions, name).high_ratio,
                       get_multiplier_data(comps[name], round).mult]]]

\* step 2 of run_market_logic: w_low[name], w_high[name]
Weights(comps, decisions, round) ==
    [name \in TeamSet |->
        IF comps[name].is_bankrupt THEN [low |-> RZero, high |-> RZero]
        ELSE LET d == DecisionOf(decisions, name)
                 m == get_multiplier_data(comps[name], round).mult
             IN  [low |-> RMul[d.low_ratio, m], high |-> RMul[d.high_ratio, m]]]

\* sum(w.values())
SumLow(w) ==
    RAdd[RAdd[w[teams[1]].low, w[teams[2]].low], RAdd[w[teams[3]].low, w[teams[4]].low]]
SumHigh(w) ==
    RAdd[RAdd[w[teams[1]].high, w[teams[2]].high], RAdd[w[teams[3]].high, w[teams[4]].high]]

\* inv_cost of a decision
InvCost(d) ==
    (IF d.vi = "Manufacturing" THEN MfgCost ELSE 0)
    + (IF d.vi = "Software" THEN SoftCost ELSE 0)
    + (IF d.build_factory THEN FactoryCost ELSE 0)

\* new_l, new_h: the competitive share of a weight in a segment's total
RawShare(w, total) == IF RSign[total] > 0 THEN RDiv[w, total] ELSE RatOf[1, 4]

\* act_l, act_h: the share settled with inertia
Smoothed(prev, new) == RAdd[RMul[alpha, prev], RMul[RSub[ROne, alpha], new]]

\* a faulty variant of ConsecutiveLoss: one loss is enough
SingleLoss(comp, net_profit) == RSign[net_profit] < 0

\* the consecutive-loss test of run_market_logic
ConsecutiveLoss(comp, net_profit) ==
    RSign[comp.last_round_net_profit] < 0 /\ RSign[net_profit] < 0

\* a faulty variant of ScheduleEffects: any investment raises the extra multiple
ScheduleEffectsAnyInvestment(comp, d, round) ==
    [comp EXCEPT
        !.mfg_effects = IF d.vi = "Manufacturing"
                        THEN Append(@, [start |-> round + 1, end |-> round + 2,
                                        l_b |-> MfgLowBonus, h_b |-> MfgHighBonus])
                        ELSE @,
        !.soft_effects = IF d.vi = "Software"
                         THEN Append(@, [start |-> round + 1,
                                         l_b |-> SoftLowBonus, h_b |-> SoftHighBonus])
                         ELSE @,
        !.extra_pe = IF d.vi # "None" THEN @ + 1 ELSE @,
        !.factory_effects = IF d.build_factory THEN Append(@, round + 2) ELSE @]

\* a faulty variant of ScheduleEffects: a factory starts in the round after it is built
ScheduleEffectsFactoryNext(comp, d, round) ==
    [comp EXCEPT
        !.mfg_effects = IF d.vi = "Manufacturing"
                        THEN Append(@, [start |-> round + 1, end |-> round + 2,
                                        l_b |-> MfgLowBonus, h_b |-> MfgHighBonus])
                        ELSE @,
        !.soft_effects = IF d.vi = "Software"
                         THEN Append(@, [start |-> round + 1,
                                         l_b |-> SoftLowBonus, h_b |-> SoftHighBonus])
                         ELSE @,
        !.extra_pe = IF d.vi = "Software" THEN @ + 1 ELSE @,
        !.factory_effects = IF d.build_factory THEN Append(@, round + 1) ELSE @]

\* the effects a decision schedules, and the extra multiple of Software
ScheduleEffects(comp, d, round) ==
    [comp EXCEPT
        !.mfg_effects = IF d.vi = "Manufacturing"
                        THEN Append(@, [start |-> round + 1, end |-> round + 2,
                                        l_b |-> MfgLowBonus, h_b |-> MfgHighBonus])
                        ELSE @,
        !.soft_effects = IF d.vi = "Software"
                         THEN Append(@, [start |-> round + 1,
                                         l_b |-> SoftLowBonus, h_b |-> SoftHighBonus])
                         ELSE @,
        !.extra_pe = IF d.vi = "Software" THEN @ + 1 ELSE @,
        !.factory_effects = IF d.build_factory THEN Append(@, round + 2) ELSE @]

\* a faulty variant of BankruptcyCheck: a round closed with a loss bankrupts
BankruptOnLoss(comp) ==
    IF RSign[comp.last_round_net_profit] < 0 THEN [comp EXCEPT !.is_bankrupt = TRUE] ELSE comp

\* if comp.cash < 0: comp.is_bankrupt = True
BankruptcyCheck(comp) == IF RSign[comp.cash] < 0 THEN [comp EXCEPT !.is_bankrupt = TRUE] ELSE comp

\* the report row of a bankrupt company
BankruptRow(comp) ==
    [Team |-> comp.name, Op_Profit |-> RZero, Net_Profit |-> RZero,
     Cash_Balance |-> comp.cash, Total_Share |-> RZero, Low_Share |-> RZero,
     High_Share |-> RZero, PE |-> 0, Factory |-> "Bankrupt", Est_Price |-> RZero]

\* op_profit: the sales of both segments at the unit profits of the round
OpProfit(comp, round, act_l, act_h) ==
    RAdd[RMul[RMul[act_l, RInt[low_market]], RInt[get_unit_profit(comp, round).low_p]],
         RMul[RMul[act_h, RInt[high_market]], RInt[get_unit_profit(comp, round).high_p]]]

\* net_profit = op_profit - inv_cost
NetProfit(op_profit, d) == RSub[op_profit, RInt[InvCost(d)]]

\* the company once its shares are stored, the profit is added to its cash and the
\* loss flag is set
Pay(comp, act_l, act_h, net_profit) ==
    [comp EXCEPT
        !.prev_low_share = act_l,
        !.prev_high_share = act_h,
        !.cash = RAdd[@, net_profit],
        !.ever_had_consecutive_loss = @ \/ ConsecutiveLoss(comp, net_profit),
        !.last_round_net_profit = net_profit]

\* est_price = max(0, op_profit * comp.get_display_pe()), computed before the
\* investment's effects are scheduled
EstPrice(paid, op_profit) == RMax[RZero, RMul[op_profit, RInt[get_display_pe(paid)]]]

\* (low_sales + high_sales) / 100000
TotalShare(act_l, act_h) ==
    RDiv[RAdd[RMul[act_l, RInt[low_market]], RMul[act_h, RInt[high_market]]],
         RInt[TotalMarket]]

\* the report row of a company that is not bankrupt, read from the company at the
\* end of its turn
Row(after, d, round, act_l, act_h, op_profit, net_profit, est_price) ==
    [Team |-> after.name, Op_Profit |-> op_profit, Net_Profit |-> net_profit,
     Cash_Balance |-> after.cash,
     Total_Share |-> TotalShare(act_l, act_h),
     Low_Share |-> act_l, High_Share |-> act_h,
     PE |-> get_display_pe(after),
     Factory |-> IF d.build_factory \/ get_multiplier_data(after, round).active_from_past
                 THEN "Yes" ELSE "No",
     Est_Price |-> est_price]

\* The turn of one company in step 3 of run_market_logic, in the order of the code.
\* Each stage is a function of the values computed so far, as the local variables of
\* the loop body are: act_l and act_h, then op_profit, then net_profit, then the
\* company with its cash and flags updated, then the price, then the effects and
\* the bankruptcy test, then the row.

\* the company at the end of its turn, with its report row
Finish[after \in CompanyType, d \in Decision, round \in Nat, act_l \in Rat, act_h \in Rat, op_profit \in Rat, net_profit \in Rat, est_price \in Rat] ==
    [comp |-> after,
     row |-> Row(after, d, round, act_l, act_h, op_profit, net_profit, est_price)]

\* the turn from the price on: est_price is computed on the company as it is paid,
\* before the effects of the decision are scheduled
Close[paid \in CompanyType, d \in Decision, round \in Nat, act_l \in Rat, act_h \in Rat, op_profit \in Rat, net_profit \in Rat] ==
    Finish[BankruptcyCheck(ScheduleEffects(paid, d, round)), d, round, act_l, act_h,
           op_profit, net_profit, EstPrice(paid, op_profit)]

\* the turn from the net profit on
Book[comp \in CompanyType, d \in Decision, round \in Nat, act_l \in Rat, act_h \in Rat, op_profit \in Rat, net_profit \in Rat] ==
    Close[Pay(comp, act_l, act_h, net_profit), d, round, act_l, act_h, op_profit, net_profit]

\* the turn from the operating profit on
Earn[comp \in CompanyType, d \in Decision, round \in Nat, act_l \in Rat, act_h \in Rat, op_profit \in Rat] ==
    Book[comp, d, round, act_l, act_h, op_profit, NetProfit(op_profit, d)]

\* the turn from the settled shares on
Sell[comp \in CompanyType, d \in Decision, round \in Nat, act_l \in Rat, act_h \in Rat] ==
    Earn[comp, d, round, act_l, act_h, OpProfit(comp, round, act_l, act_h)]

\* step 3 of run_market_logic for one company that is not bankrupt: the company
\* after the round and its report row
Settle(comp, d, round, w, s_low_total, s_high_total) ==
    Sell[comp, d, round,
         Smoothed(comp.prev_low_share, RawShare(w.low, s_low_total)),
         Smoothed(comp.prev_high_share, RawShare(w.high, s_high_total))]

\* rank(ascending=False, method='min'): one more than the rows with a greater value
RankOf(values, i) == 1 + Cardinality({j \in 1..Len(values) : RLess[values[i], values[j]]})

\* pd.DataFrame(round_results) with its two rank columns
DataFrame[round_results \in Seq(RowType)] ==
    [i \in 1..Len(round_results) |->
        [Team |-> round_results[i].Team,
         Op_Profit |-> round_results[i].Op_Profit,
         Net_Profit |-> round_results[i].Net_Profit,
         Cash_Balance |-> round_results[i].Cash_Balance,
         Total_Share |-> round_results[i].Total_Share,
         Low_Share |-> round_results[i].Low_Share,
         High_Share |-> round_results[i].High_Share,
         PE |-> round_results[i].PE,
         Factory |-> round_results[i].Factory,
         Est_Price |-> round_results[i].Est_Price,
         Share_Rank |-> RankOf([k \in 1..Len(round_results) |-> round_results[k].Total_Share], i),
         Price_Rank |-> RankOf([k \in 1..Len(round_results) |-> round_results[k].Est_Price], i)]]

\* the turn of every company: the company after it and its row
Turns == [TeamSet -> [comp : CompanyType, row : RowType]]

\* the companies after the round and the report, from the turn of every company
Outcome[settled \in Turns] ==
    [companies |-> [name \in TeamSet |-> settled[name].comp],
     report |-> DataFrame[[i \in 1..Len(teams) |-> settled[teams[i]].row]]]

\* step 3 of run_market_logic, given the weights and their totals
Financials[comps \in Companies, decisions \in DecisionDict, round \in Nat, w \in WeightDict, s_low_total \in Rat, s_high_total \in Rat] ==
    Outcome[[name \in TeamSet |->
                IF comps[name].is_bankrupt
                THEN [comp |-> comps[name], row |-> BankruptRow(comps[name])]
                ELSE Settle(comps[name], DecisionOf(decisions, name), round,
                            w[name], s_low_total, s_high_total)]]

\* the totals of step 2, given the weights
Totals[comps \in Companies, decisions \in DecisionDict, round \in Nat, w \in WeightDict] ==
    Financials[comps, decisions, round, w, SumLow(w), SumHigh(w)]

\* steps 2 and 3 of run_market_logic: every company after the round, and the report
Resolution(comps, decisions, round) ==
    Totals[comps, decisions, round, Weights(comps, decisions, round)]

\* ------------------------------------------------------------------------
\* Bounds of the model
\* ------------------------------------------------------------------------

\* rounds resolved at most when the engine is called directly
MaxResolves == 5
\* rounds resolved at most in the long game
MaxResolvesLong == 26
\* operator sessions that can press the button at the same time
NumSessions == 2
\* reports written at most while the operator sessions race
MaxRaceReports == 2
\* the cases a company is drawn from for the final table
NumFinalCases == 5

\* SimulationEngine.__init__, and the page before anybody has pressed a button
Init ==
    /\ companies = [name \in TeamSet |-> Company(name)]
    /\ current_round = 1
    /\ history = << >>
    /\ decision_history = << >>
    /\ round_decisions = << >>
    /\ submitted_teams = {}
    /\ game_over = FALSE
    /\ ret = "None"
    /\ overwritten = FALSE
    /\ out_of_order = FALSE
    /\ pc = [s \in 1..NumSessions |-> "idle"]
    /\ final_scores = << >>

\* SimulationEngine.submit_team_decision
submit_team_decision(team_name, dec) ==
    /\ round_decisions' = PutDecision(round_decisions, team_name, dec)
    /\ submitted_teams' = submitted_teams \cup {team_name}

\* two faulty variants of CheckReady: if len(self.submitted_teams) <= 4, and
\* if len(self.submitted_teams) < 3
CheckReadyStrict == Cardinality(submitted_teams) > NeededTeams

CheckReadyThree == Cardinality(submitted_teams) >= NeededTeams - 1

\* if len(self.submitted_teams) < 4: return False
CheckReady == Cardinality(submitted_teams) >= NeededTeams

\* run_market_logic from the audit loop to self.history.append(df)
ComputeRound ==
    LET r == Resolution(companies, round_decisions, current_round)
    IN  /\ decision_history' =
               decision_history \o AuditRecords(round_decisions, current_round)
        /\ companies' = r.companies
        /\ history' = Append(history, r.report)

\* run_market_logic when a loop reads self.round_decisions[name] of a team that has
\* none: the audit records are written, the KeyError ends the call
RaiseKeyError ==
    /\ decision_history' =
           decision_history \o AuditRecords(round_decisions, current_round)
    /\ UNCHANGED <<companies, history>>

\* a faulty variant of FinishRound: the round advances, the buffers are kept
FinishRoundKeeping ==
    /\ UNCHANGED <<submitted_teams, round_decisions>>
    /\ IF current_round >= LastRound
       THEN game_over' = TRUE /\ UNCHANGED current_round
       ELSE current_round' = current_round + 1 /\ UNCHANGED game_over

\* a faulty variant of FinishRound: if self.current_round > 4
FinishRoundLate ==
    /\ submitted_teams' = {}
    /\ round_decisions' = << >>
    /\ IF current_round > LastRound
       THEN game_over' = TRUE /\ UNCHANGED current_round
       ELSE current_round' = current_round + 1 /\ UNCHANGED game_over

\* the end of run_market_logic: the buffers are emptied, the round advances
FinishRound ==
    /\ submitted_teams' = {}
    /\ round_decisions' = << >>
    /\ IF current_round >= LastRound
       THEN game_over' = TRUE /\ UNCHANGED current_round
       ELSE current_round' = current_round + 1 /\ UNCHANGED game_over

\* SimulationEngine.run_market_logic, run from its first line to its last
run_market_logic ==
    IF ~CheckReady
    THEN ret' = "False" /\ UNCHANGED engine
    ELSE IF ~DecisionsComplete(companies, round_decisions)
    THEN /\ ret' = "KeyError"
         /\ RaiseKeyError
         /\ UNCHANGED <<current_round, round_decisions, submitted_teams, game_over>>
    ELSE ret' = "True" /\ ComputeRound /\ FinishRound

\* the row of a team in a report
RowOf(report, name) == report[TeamIndex(name)]

\* the multiple of the final price: the loss penalty is taken off
FinalPe(c) ==
    LET pe == BasePe + c.extra_pe - (IF c.ever_had_consecutive_loss THEN LossPenalty ELSE 0)
    IN  IF pe > MinPe THEN pe ELSE MinPe

\* a faulty variant of FinalEntry: a bankrupt company is not set to zero
FinalEntryOfAll(c, report) ==
    [Team |-> c.name,
     Final_Share |-> RowOf(report, c.name).Total_Share,
     Price |-> RMax[RZero, RMul[RowOf(report, c.name).Op_Profit, RInt[FinalPe(c)]]]]

\* the entry of a company in final_list, read from the last report
FinalEntry(c, report) ==
    IF c.is_bankrupt
    THEN [Team |-> c.name, Final_Share |-> RZero, Price |-> RZero]
    ELSE [Team |-> c.name,
          Final_Share |-> RowOf(report, c.name).Total_Share,
          Price |-> RMax[RZero, RMul[RowOf(report, c.name).Op_Profit, RInt[FinalPe(c)]]]]

\* df[column].max()
MaxOf[values \in Seq(Rat)] ==
    IF Len(values) = 1 THEN values[1] ELSE RMax[Head(values), MaxOf[Tail(values)]]

\* (m if m > 0 else 1)
Divisor(m) == IF RSign[m] > 0 THEN m ELSE ROne

\* df['Score']: half the share relative to the largest, half the price relative to
\* the largest
Score(e, ms, mp) ==
    RAdd[RMul[RatOf[1, 2], RDiv[e.Final_Share, Divisor(ms)]],
         RMul[RatOf[1, 2], RDiv[e.Price, Divisor(mp)]]]

\* df.sort_values('Score', ascending=False): the rows by falling score; rows of
\* equal score stay in the order they had (four rows are sorted by insertion)
SortByScore(df) ==
    LET before(i, j) == \/ RLess[df[j].Score, df[i].Score]
                        \/ (df[i].Score = df[j].Score /\ i < j)
        place(i) == 1 + Cardinality({j \in 1..Len(df) : before(j, i)})
    IN  [k \in 1..Len(df) |-> df[CHOOSE i \in 1..Len(df) : place(i) = k]]

\* SimulationEngine.get_final_scores
get_final_scores(comps, hist) ==
    LET final_list == [i \in 1..Len(teams) |-> FinalEntry(comps[teams[i]], hist[Len(hist)])]
        ms == MaxOf[[i \in 1..Len(final_list) |-> final_list[i].Final_Share]]
        mp == MaxOf[[i \in 1..Len(final_list) |-> final_list[i].Price]]
    IN  SortByScore([i \in 1..Len(final_list) |->
                        [Team |-> final_list[i].Team,
                         Final_Share |-> final_list[i].Final_Share,
                         Price |-> final_list[i].Price,
                         Score |-> Score(final_list[i], ms, mp)]])

\* ------------------------------------------------------------------------
\* The decisions offered to the engine
\* ------------------------------------------------------------------------

\* st.slider("Low-End allocation", 0.0, 1.0, 0.5, 0.05): position k of 0..20
Slider(k) == RatOf[k, 20]

\* the dict the form submits: {"low_ratio": l, "high_ratio": 1.0 - l, "vi": v, ...}
Dec(l, v, f) == [low_ratio |-> l, high_ratio |-> RSub[ROne, l], vi |-> v, build_factory |-> f]

\* the decisions each team chooses from on the page, round after round
Choices(name) ==
    CASE name = "Team 1" -> {Dec(Slider(0), "Software", FALSE),
                             Dec(Slider(0), "Manufacturing", TRUE)}
      [] name = "Team 2" -> {Dec(Slider(0), "None", FALSE),
                             Dec(Slider(10), "Software", TRUE)}
      [] name = "Team 3" -> {Dec(Slider(0), "None", TRUE)}
      [] name = "Team 4" -> {Dec(Slider(0), "Manufacturing", TRUE)}

\* the decisions each team chooses from on the page when the run to the end of the
\* game is followed
LiveChoices(name) ==
    CASE name = "Team 1" -> {Dec(Slider(0), "Software", FALSE),
                             Dec(Slider(0), "Manufacturing", TRUE)}
      [] name = "Team 2" -> {Dec(Slider(10), "Software", TRUE)}
      [] name = "Team 3" -> {Dec(Slider(0), "None", TRUE)}
      [] name = "Team 4" -> {Dec(Slider(0), "Manufacturing", TRUE)}

\* the decisions each team chooses from when the engine is called directly
DirectChoices(name) ==
    CASE name = "Team 1" -> {Dec(Slider(0), "Software", FALSE),
                             Dec(Slider(0), "Manufacturing", TRUE)}
      [] name = "Team 2" -> {Dec(Slider(0), "None", TRUE)}
      [] name = "Team 3" -> {Dec(Slider(1), "None", TRUE)}
      [] name = "Team 4" -> {Dec(Slider(1), "Software", TRUE)}

\* the one decision each team repeats in the long game
LongChoices(name) ==
    CASE name = "Team 1" -> {Dec(Slider(0), "Software", TRUE)}
      [] name = "Team 2" -> {Dec(Slider(0), "None", TRUE)}
      [] name = "Team 3" -> {Dec(Slider(0), "None", TRUE)}
      [] name = "Team 4" -> {Dec(Slider(1), "None", TRUE)}

\* ------------------------------------------------------------------------
\* The engine called directly: any sequence of the two operations
\* ------------------------------------------------------------------------

\* a call of submit_team_decision
Submit(name, dec) ==
    /\ submit_team_decision(name, dec)
    /\ ret' = "None"
    /\ overwritten' = ((submitted_teams # {} /\ overwritten) \/ name \in submitted_teams)
    /\ out_of_order' = \/ (submitted_teams # {} /\ out_of_order)
                       \/ \E t \in submitted_teams : TeamIndex(t) > TeamIndex(name)
    /\ UNCHANGED <<companies, current_round, history, decision_history, game_over, pc,
                   final_scores>>

\* a call of run_market_logic; at most `bound` rounds are resolved
Resolve(bound) ==
    /\ CheckReady => Len(history) < bound
    /\ run_market_logic
    /\ UNCHANGED <<overwritten, out_of_order, pc, final_scores>>

Next ==
    \/ /\ Len(history) < MaxResolves
       /\ \E name \in TeamSet : \E dec \in DirectChoices(name) : Submit(name, dec)
    \/ Resolve(MaxResolves)

Spec == Init /\ [][Next]_vars

\* the same, every team repeating one decision, for as long as it takes a company
\* to run out of cash
NextLong ==
    \/ /\ Len(history) < MaxResolvesLong
       /\ \E name \in TeamSet : \E dec \in LongChoices(name) : Submit(name, dec)
    \/ Resolve(MaxResolvesLong)

SpecLong == Init /\ [][NextLong]_vars

\* ------------------------------------------------------------------------
\* The page: what its forms and buttons let a session do
\* ------------------------------------------------------------------------

\* "Team Input": the form is offered to a team while the game runs, the team has
\* not submitted in this round and its company is not bankrupt
FormOffered(name) ==
    /\ ~game_over
    /\ name \notin submitted_teams
    /\ ~companies[name].is_bankrupt

\* a team presses Submit on its form
TeamSubmits(name, dec) ==
    /\ FormOffered(name)
    /\ submit_team_decision(name, dec)
    /\ ret' = "None"
    /\ UNCHANGED <<companies, current_round, history, decision_history, game_over,
                   overwritten, out_of_order, pc, final_scores>>

\* "Teacher Calculation": the button is offered once four teams are ready
ButtonOffered == Cardinality(submitted_teams) = NeededTeams /\ ~game_over

\* the operator presses EXECUTE CALCULATIONS; the call runs undisturbed
TeacherExecutes ==
    /\ ButtonOffered
    /\ run_market_logic
    /\ UNCHANGED <<overwritten, out_of_order, pc, final_scores>>

NextLive ==
    \/ \E name \in TeamSet : \E dec \in LiveChoices(name) : TeamSubmits(name, dec)
    \/ TeacherExecutes

\* every team that is offered its form submits in the end, and the operator presses
\* the button in the end once it is offered
Fairness ==
    /\ \A name \in TeamSet : WF_vars(\E dec \in LiveChoices(name) : TeamSubmits(name, dec))
    /\ WF_vars(TeacherExecutes)

SpecLive == Init /\ [][NextLive]_vars /\ Fairness

\* the page with more decisions to choose from, nothing said of who acts when
NextPage ==
    \/ \E name \in TeamSet : \E dec \in Choices(name) : TeamSubmits(name, dec)
    \/ TeacherExecutes

SpecPage == Init /\ [][NextPage]_vars

\* ------------------------------------------------------------------------
\* Several operator sessions on the one engine get_shared_game() returns: each
\* session runs the script in a thread of its own, and run_market_logic takes no
\* lock, so the calls interleave
\* ------------------------------------------------------------------------

Sessions == 1..NumSessions

\* session s presses the button and enters run_market_logic; no session presses it
\* any more once MaxRaceReports reports are written
TeacherBegins(s) ==
    /\ pc[s] = "idle"
    /\ ButtonOffered
    /\ Len(history) < MaxRaceReports
    /\ pc' = [pc EXCEPT ![s] = "check"]
    /\ UNCHANGED <<engine, ret, overwritten, out_of_order, final_scores>>

\* session s at the first line of run_market_logic
TeacherChecks(s) ==
    /\ pc[s] = "check"
    /\ IF CheckReady
       THEN pc' = [pc EXCEPT ![s] = "compute"] /\ UNCHANGED ret
       ELSE pc' = [pc EXCEPT ![s] = "idle"] /\ ret' = "False"
    /\ UNCHANGED <<engine, overwritten, out_of_order, final_scores>>

\* session s from the audit loop to self.history.append(df)
TeacherComputes(s) ==
    /\ pc[s] = "compute"
    /\ IF DecisionsComplete(companies, round_decisions)
       THEN ComputeRound /\ pc' = [pc EXCEPT ![s] = "finish"] /\ UNCHANGED ret
       ELSE RaiseKeyError /\ pc' = [pc EXCEPT ![s] = "idle"] /\ ret' = "KeyError"
    /\ UNCHANGED <<current_round, round_decisions, submitted_teams, game_over,
                   overwritten, out_of_order, final_scores>>

\* session s from self.submitted_teams = set() to return True
TeacherFinishes(s) ==
    /\ pc[s] = "finish"
    /\ FinishRound
    /\ pc' = [pc EXCEPT ![s] = "idle"]
    /\ ret' = "True"
    /\ UNCHANGED <<companies, history, decision_history, overwritten, out_of_order, final_scores>>

NextConc ==
    \/ \E name \in TeamSet : \E dec \in LongChoices(name) : TeamSubmits(name, dec)
    \/ \E s \in Sessions : TeacherBegins(s)
    \/ \E s \in Sessions : TeacherChecks(s)
    \/ \E s \in Sessions : TeacherComputes(s)
    \/ \E s \in Sessions : TeacherFinishes(s)

SpecConc == Init /\ [][NextConc]_vars

\* ------------------------------------------------------------------------
\* The final table: get_final_scores is a function of the companies and of the
\* last report, so it is applied to engines drawn at the end of a game, the case
\* of every company chosen on its own
\* ------------------------------------------------------------------------

\* The cases of a company at the end of a game, with its row in the last report:
\* 1 sound, one Software round; 2 sound with the loss penalty; 3 bankrupt before the
\* last round; 4 sound, two Software rounds; 5 bankrupt in the last round (its row
\* is still that of a company in business); any other number: sound, no investment.
FinalCase(name, k) ==
    LET comp == [Company(name) EXCEPT
                    !.is_bankrupt = k \in {3, 5},
                    !.cash = IF k \in {3, 5} THEN RInt[-1000000] ELSE RInt[20000000],
                    !.ever_had_consecutive_loss = (k = 2),
                    !.extra_pe = IF k = 1 THEN 1 ELSE IF k = 4 THEN 2 ELSE 0]
        op_profit == RInt[CASE k = 1 -> 12000000 [] k \in {2, 4} -> 9000000
                            [] k = 5 -> 3000000 [] OTHER -> 6000000]
        share == RatOf[CASE k \in {1, 4} -> 6 [] k = 2 -> 4 [] k = 5 -> 1 [] OTHER -> 3, 20]
    IN  [comp |-> comp,
         row |-> IF k = 3 THEN BankruptRow(comp)
                 ELSE [Team |-> name, Op_Profit |-> op_profit, Net_Profit |-> op_profit,
                       Cash_Balance |-> comp.cash, Total_Share |-> share,
                       Low_Share |-> share, High_Share |-> share,
                       PE |-> get_display_pe(comp), Factory |-> "No",
                       Est_Price |-> RMul[op_profit, RInt[get_display_pe(comp)]]]]

\* an engine at the end of a game
InitScores ==
    \E k \in [TeamSet -> 1..NumFinalCases] :
        /\ companies = [name \in TeamSet |-> FinalCase(name, k[name]).comp]
        /\ history = <<DataFrame[[i \in 1..Len(teams) |->
                                     FinalCase(teams[i], k[teams[i]]).row]]>>
        /\ current_round = LastRound
        /\ game_over = TRUE
        /\ decision_history = << >>
        /\ round_decisions = << >>
        /\ submitted_teams = {}
        /\ ret = "None"
        /\ overwritten = FALSE
        /\ out_of_order = FALSE
        /\ pc = [s \in 1..NumSessions |-> "idle"]
        /\ final_scores = << >>

\* "Final Summary Page": the page shows game.get_final_scores() once the game is over
FinalSummary ==
    /\ game_over
    /\ final_scores' = get_final_scores(companies, history)
    /\ UNCHANGED <<engine, ret, overwritten, out_of_order, pc>>

SpecScores == InitScores /\ [][FinalSummary]_vars

\* ------------------------------------------------------------------------
\* Properties
\* ------------------------------------------------------------------------

\* the report written last
LastReport == history[Len(history)]

\* a step that appends a report
Appends == Len(history') > Len(history)

\* the audit records of a team that chose Software
SoftwareRounds(name) ==
    Cardinality({i \in 1..Len(decision_history) :
                    /\ decision_history[i].Team = name
                    /\ decision_history[i].VI = "Software"})

\* C1: on the page, when every team that is offered its form submits in the end and
\* the operator presses the button in the end once it is offered, each of the rounds
\* 1 to 4 is resolved in the end and game_over becomes true; and while the game runs
\* the page always offers a form or the button, so it never waits for a submission
\* that cannot arrive.
C1_GameEnds ==
    /\ \A r \in 1..LastRound : <>(Len(history) = r)
    /\ <>game_over
    /\ [](~game_over => (ButtonOffered \/ \E name \in TeamSet : FormOffered(name)))

C1_Ended == game_over /\ Len(history) = LastRound /\ ret = "True"

\* C2: once game_over is true no step appends a report or changes a company, and
\* history never holds more than 4 reports.
C2_NoResolveAfterGameOver ==
    /\ [](Len(history) <= LastRound)
    /\ [][game_over => (history' = history /\ companies' = companies)]_vars

\* C3: with several operator sessions on the one engine a round is resolved at most
\* once: there are never more reports than rounds begun, and whenever no call of
\* run_market_logic is under way there is exactly one report for each round passed.
C3_RoundResolvedOnce ==
    /\ Len(history) <= (IF game_over THEN LastRound ELSE current_round)
    /\ (\A s \in Sessions : pc[s] = "idle") =>
           Len(history) = (IF game_over THEN LastRound ELSE current_round - 1)

\* C4: a call of run_market_logic made while fewer than four teams are ready returns
\* False and leaves every field of the engine as it was (so the decisions recorded
\* so far still stand and the round is resolved once the others arrive).
C4_DeclineChangesNothing ==
    [][(Cardinality(submitted_teams) < NeededTeams /\ ret' # "None")
           => (ret' = "False" /\ UNCHANGED engine)]_vars

C4_Declined ==
    /\ ret = "False"
    /\ Cardinality(submitted_teams) \in 1..(NeededTeams - 1)
    /\ Len(round_decisions) = Cardinality(submitted_teams)
    /\ Len(history) > 0

\* C5: the engine declines to resolve only while a company that is not bankrupt has
\* no recorded decision; the decision of a bankrupt company is not waited for.
C5_BankruptNotRequired ==
    ret = "False" =>
        \E name \in TeamSet :
            ~companies[name].is_bankrupt /\ ~HasDecision(round_decisions, name)

\* C6: game_over is false while fewer than 4 rounds are resolved and true from the
\* resolution of round 4 on, no step sets it back to false, and current_round stays
\* within 1..4.
C6_GameOverAtFour ==
    /\ [](game_over <=> Len(history) >= LastRound)
    /\ [](current_round \in 1..LastRound)
    /\ [][game_over => game_over']_vars

C6_StillOver == game_over /\ Len(history) > LastRound /\ ret = "True" /\ current_round = LastRound

\* C7: a team that submits again in a round counts once: there is one recorded
\* decision for each ready team, and a resolution applies the recorded decision of
\* each company once (its cost charged once on the operating profit, one effect
\* record for each investment it holds, the extra multiple raised by 1 for Software
\* and by nothing otherwise).
C7_OverwriteCountsOnce ==
    /\ [](Len(round_decisions) = Cardinality(submitted_teams))
    /\ [][Appends =>
            \A name \in TeamSet :
                ~companies[name].is_bankrupt =>
                    /\ RowOf(history'[Len(history')], name).Net_Profit =
                           RSub[RowOf(history'[Len(history')], name).Op_Profit,
                                RInt[InvCost(DecisionOf(round_decisions, name))]]
                    /\ companies'[name].cash =
                           RAdd[companies[name].cash,
                                RowOf(history'[Len(history')], name).Net_Profit]
                    /\ Len(companies'[name].mfg_effects) =
                           Len(companies[name].mfg_effects)
                           + (IF DecisionOf(round_decisions, name).vi = "Manufacturing"
                              THEN 1 ELSE 0)
                    /\ Len(companies'[name].soft_effects) =
                           Len(companies[name].soft_effects)
                           + (IF DecisionOf(round_decisions, name).vi = "Software"
                              THEN 1 ELSE 0)
                    /\ Len(companies'[name].factory_effects) =
                           Len(companies[name].factory_effects)
                           + (IF DecisionOf(round_decisions, name).build_factory
                              THEN 1 ELSE 0)
                    /\ companies'[name].extra_pe =
                           companies[name].extra_pe
                           + (IF DecisionOf(round_decisions, name).vi = "Software"
                              THEN 1 ELSE 0)]_vars

C7_ResolvedAfterOverwrite == overwritten /\ ret = "True" /\ Len(history) > 0

\* C8: in every report the settled low-end shares of the companies that are not
\* bankrupt sum to 1, and so do their settled high-end shares (the sums run over all
\* four rows: the row of a bankrupt company shows the share 0 in both segments).
C8_SharesSumToOne ==
    history # << >> =>
        /\ RAdd[RAdd[LastReport[1].Low_Share, LastReport[2].Low_Share],
                RAdd[LastReport[3].Low_Share, LastReport[4].Low_Share]] = ROne
        /\ RAdd[RAdd[LastReport[1].High_Share, LastReport[2].High_Share],
                RAdd[LastReport[3].High_Share, LastReport[4].High_Share]] = ROne

\* C9: a company is bankrupt exactly when its cash is below 0; once bankrupt no
\* step changes it (the flag stays, the cash stays); and in a resolution made while
\* it is bankrupt its weights are zero in both segments and its report row shows
\* zero shares, zero profits and a zero price.
C9_BankruptcyTerminal ==
    /\ [](\A name \in TeamSet :
             companies[name].is_bankrupt <=> RSign[companies[name].cash] < 0)
    /\ [][\A name \in TeamSet :
             companies[name].is_bankrupt => companies'[name] = companies[name]]_vars
    /\ [][Appends =>
            \A name \in TeamSet :
                companies[name].is_bankrupt =>
                    /\ Weights(companies, round_decisions, current_round)[name] =
                           [low |-> RZero, high |-> RZero]
                    /\ RowOf(history'[Len(history')], name).Low_Share = RZero
                    /\ RowOf(history'[Len(history')], name).High_Share = RZero
                    /\ RowOf(history'[Len(history')], name).Total_Share = RZero
                    /\ RowOf(history'[Len(history')], name).Op_Profit = RZero
                    /\ RowOf(history'[Len(history')], name).Net_Profit = RZero
                    /\ RowOf(history'[Len(history')], name).Est_Price = RZero
                    /\ RowOf(history'[Len(history')], name).Cash_Balance =
                           companies[name].cash]_vars

C9_BankruptRowWritten ==
    /\ history # << >>
    /\ ret = "True"
    /\ \E name \in TeamSet :
           /\ companies[name].is_bankrupt
           /\ RowOf(LastReport, name).Factory = "Bankrupt"

\* C10: the extra multiple of a company never decreases, and for a company whose
\* decisions were all applied (it is not bankrupt) it equals the number of rounds in
\* which its decision chose Software.
C10_ExtraPeCountsSoftware ==
    /\ [](\A name \in TeamSet :
             ~companies[name].is_bankrupt =>
                 companies[name].extra_pe = SoftwareRounds(name))
    /\ [][\A name \in TeamSet : companies'[name].extra_pe >= companies[name].extra_pe]_vars

C10_SomeSoftware ==
    /\ Len(history) = LastRound
    /\ companies["Team 1"].extra_pe = 2
    /\ companies["Team 4"].extra_pe = LastRound
    /\ companies["Team 2"].extra_pe = 0

\* the audit records of a team that chose the investment vi in one of the rounds
AuditCount(name, vi, rounds) ==
    Cardinality({i \in 1..Len(decision_history) :
                    /\ decision_history[i].Team = name
                    /\ decision_history[i].VI = vi
                    /\ decision_history[i].Round \in rounds})

\* C11: in the resolution of round k the unit profits of a company are the base
\* profits, plus 100 (low) and 200 (high) for each Manufacturing investment it made
\* in round k - 1 or k - 2 and for no other (not one of round k, not one of round
\* k - 3 or earlier; two investments add up where their windows overlap), plus the
\* Software bonus of each earlier round; and the operating profit of its report row
\* is the sales of its settled shares at exactly these unit profits.
C11_MfgBonusWindow ==
    [][Appends =>
        \A name \in TeamSet :
            ~companies[name].is_bankrupt =>
                LET n == AuditCount(name, "Manufacturing",
                                    {current_round - 1, current_round - 2})
                    k == AuditCount(name, "Software", 1..(current_round - 1))
                    low_p == BaseLowProfit + MfgLowBonus * n + SoftLowBonus * k
                    high_p == BaseHighProfit + MfgHighBonus * n + SoftHighBonus * k
                    row == RowOf(history'[Len(history')], name)
                IN  /\ get_unit_profit(companies[name], current_round) =
                           [low_p |-> low_p, high_p |-> high_p]
                    /\ row.Op_Profit =
                           RAdd[RMul[RMul[row.Low_Share, RInt[low_market]], RInt[low_p]],
                                RMul[RMul[row.High_Share, RInt[high_market]],
                                     RInt[high_p]]]]_vars

C11_WindowsOverlap ==
    /\ Len(history) = LastRound
    /\ ret = "True"
    /\ AuditCount("Team 1", "Manufacturing", {1}) = 1
    /\ AuditCount("Team 1", "Manufacturing", {2}) = 1
    /\ AuditCount("Team 1", "Manufacturing", {3, 4}) = 0

\* C12: in every report the multiple shown for a company that is not bankrupt is
\* max(5, 10 + extra multiple - (2 if its consecutive-loss flag is set, else 0)).
C12_ReportedPeHasPenalty ==
    history # << >> =>
        \A name \in TeamSet :
            ~companies[name].is_bankrupt =>
                LET pe == BasePe + companies[name].extra_pe
                          - (IF companies[name].ever_had_consecutive_loss
                             THEN LossPenalty ELSE 0)
                IN  RowOf(LastReport, name).PE = (IF pe > MinPe THEN pe ELSE MinPe)

\* C13: in the final table every score lies between 0 and 1, a bankrupt company
\* scores 0 (so every score is 0 when all are bankrupt), and a company that is not
\* bankrupt and has both the largest final share and the largest final price scores
\* exactly 1.
C13_FinalScores ==
    final_scores # << >> =>
        /\ Len(final_scores) = Len(teams)
        /\ \A i \in 1..Len(final_scores) :
               /\ ~RLess[final_scores[i].Score, RZero]
               /\ ~RLess[ROne, final_scores[i].Score]
               /\ companies[final_scores[i].Team].is_bankrupt =>
                      final_scores[i].Score = RZero
               /\ (/\ ~companies[final_scores[i].Team].is_bankrupt
                   /\ \A j \in 1..Len(final_scores) :
                          /\ ~RLess[final_scores[i].Final_Share, final_scores[j].Final_Share]
                          /\ ~RLess[final_scores[i].Price, final_scores[j].Price])
                      => final_scores[i].Score = ROne
        /\ (\A name \in TeamSet : companies[name].is_bankrupt) =>
               \A i \in 1..Len(final_scores) : final_scores[i].Score = RZero

C13_TopAndBankrupt ==
    /\ final_scores # << >>
    /\ final_scores[1].Score = ROne
    /\ ~companies[final_scores[1].Team].is_bankrupt
    /\ RLess[final_scores[2].Score, ROne]
    /\ RLess[RZero, final_scores[3].Score]
    /\ companies[final_scores[4].Team].is_bankrupt
    /\ RowOf(LastReport, final_scores[4].Team).Factory # "Bankrupt"
    /\ final_scores[4].Score = RZero

\* the decision an audit record was written for
AuditDecision(rec) ==
    [low_ratio |-> RatOf[rec.Low_pct, 100], high_ratio |-> RatOf[rec.High_pct, 100],
     vi |-> rec.VI, build_factory |-> (rec.Factory = "Yes")]

\* A second, fresh engine after n rounds: in each round it is given the decisions the
\* audit holds for that round, one submission for each team in the order of
\* self.teams, and resolves.
Twin[n \in Nat] ==
    IF n = 0 THEN [companies |-> [name \in TeamSet |-> Company(name)], history |-> << >>]
    ELSE LET before == Twin[n - 1]
             first == Len(teams) * (n - 1)
             r == Resolution(before.companies,
                             [i \in 1..Len(teams) |->
                                 [team |-> decision_history[first + i].Team,
                                  dec |-> AuditDecision(decision_history[first + i])]],
                             IF n > LastRound THEN LastRound ELSE n)
         IN  [companies |-> r.companies, history |-> Append(before.history, r.report)]

\* C14: whatever the order in which the teams submitted in each round, and however
\* often a team submitted again, the reports and the companies are those of a second
\* fresh engine that was given the same decision of each team for each round, in the
\* order of self.teams (so two engines given the same decisions in any two orders
\* agree with it, and with each other).  Reports and companies change only when a
\* round is resolved, so the comparison is made after each resolution.
C14_OrderIndependent ==
    ret = "True" =>
        /\ Len(decision_history) = Len(teams) * Len(history)
        /\ Twin[Len(history)].history = history
        /\ Twin[Len(history)].companies = companies

C14_ResolvedOutOfOrder ==
    /\ out_of_order
    /\ ret = "True"
    /\ Len(history) = LastRound
    /\ companies["Team 1"].extra_pe = 2

\* ------------------------------------------------------------------------
\* Reset
\* ------------------------------------------------------------------------

\* a faulty variant of the reset: the round and the buffers are rewound, the
\* companies and the lists are kept
RewindEngine ==
    /\ current_round' = 1
    /\ round_decisions' = << >>
    /\ submitted_teams' = {}
    /\ game_over' = FALSE
    /\ UNCHANGED <<companies, history, decision_history>>

\* SimulationEngine.__init__, for the engine get_shared_game builds once the cache
\* is cleared
SimulationEngine ==
    /\ companies' = [name \in TeamSet |-> Company(name)]
    /\ current_round' = 1
    /\ history' = << >>
    /\ decision_history' = << >>
    /\ round_decisions' = << >>
    /\ submitted_teams' = {}
    /\ game_over' = FALSE

\* "RESET ALL DATA": the cache is cleared and the page runs again, which builds a new
\* engine.  ret tells a reset of a finished game from any other.
TeacherResets ==
    /\ SimulationEngine
    /\ ret' = IF game_over THEN "ResetAfterGame" ELSE "Reset"
    /\ overwritten' = FALSE
    /\ out_of_order' = FALSE
    /\ UNCHANGED <<pc, final_scores>>

\* the long game with the reset button
NextReset ==
    \/ NextLong
    \/ TeacherResets

SpecReset == Init /\ [][NextReset]_vars

\* C15: after a reset, whatever the state before it, the engine is in the initial
\* state: round 1, game_over false, empty history and audit, no recorded decisions
\* and no ready teams, every company with cash 15,000,000, not bankrupt, no
\* consecutive-loss flag, extra multiple 0, no scheduled effects, previous shares 1/4.
C15_ResetGivesInitialState ==
    ret \in {"Reset", "ResetAfterGame"} =>
        /\ current_round = 1
        /\ game_over = FALSE
        /\ history = << >>
        /\ decision_history = << >>
        /\ round_decisions = << >>
        /\ submitted_teams = {}
        /\ DOMAIN companies = TeamSet
        /\ \A name \in TeamSet :
              /\ companies[name].cash = RInt[15000000]
              /\ companies[name].is_bankrupt = FALSE
              /\ companies[name].ever_had_consecutive_loss = FALSE
              /\ companies[name].last_round_net_profit = RInt[0]
              /\ companies[name].extra_pe = 0
              /\ companies[name].mfg_effects = << >>
              /\ companies[name].soft_effects = << >>
              /\ companies[name].factory_effects = << >>
              /\ companies[name].prev_low_share = RatOf[25, 100]
              /\ companies[name].prev_high_share = RatOf[25, 100]

C15_ResetOfFinishedGame ==
    /\ ret = "ResetAfterGame"
    /\ current_round = 1
    /\ history = << >>

\* the net profit a report shows for a team was a loss
LossIn(report, name) == RSign[RowOf(report, name).Net_Profit] < 0

\* C16: the consecutive-loss flag of a company becomes true in the resolution of a
\* round exactly when its net profit of that round is negative and its net profit of
\* the round resolved just before was negative too (so not on a first loss, and not
\* on two losses with a round without loss between them); no other step changes the
\* flag, and once true it stays true.
C16_ConsecutiveLossFlag ==
    [][\A name \in TeamSet :
          LET was == companies[name].ever_had_consecutive_loss
              is == companies'[name].ever_had_consecutive_loss
          IN  /\ was => is
              /\ ~Appends => (is = was)
              /\ (Appends /\ ~was) =>
                    (is <=> /\ Len(history) >= 1
                            /\ LossIn(LastReport, name)
                            /\ LossIn(history'[Len(history')], name))]_vars

C16_FlagSetAfterTwoLosses ==
    /\ Len(history) = LastRound
    /\ ret = "True"
    /\ companies["Team 1"].ever_had_consecutive_loss
    /\ LossIn(history[LastRound - 1], "Team 1")
    /\ LossIn(history[LastRound], "Team 1")
    /\ ~LossIn(history[LastRound - 2], "Team 1")

\* C17: in every report row of a company that is not bankrupt, the estimated price
\* is max(0, Op Profit x PE) for the Op Profit and the PE shown in the same row, the
\* PE being the multiple after the round's investment (a Software investment of the
\* round already counted).
C17_EstPriceUsesReportedPe ==
    \A i \in 1..Len(history) : \A name \in TeamSet :
        LET row == RowOf(history[i], name)
        IN  row.Factory # "Bankrupt" =>
                row.Est_Price = RMax[RZero, RMul[row.Op_Profit, RInt[row.PE]]]

\* C18: a successful resolution of round k appends exactly one report, with one row
\* for each team, empties the decision buffer and the set of ready teams, and moves
\* current_round from k to k + 1 when k < 4 or sets game_over when k = 4.  The decisions
\* it applies, those its audit records show for round k, are the four of the buffer,
\* which was empty after the resolution before: each was submitted since then, and
\* none is left to be applied to another round.  No other step appends a report,
\* moves the round or ends the game.
C18_ResolutionStep ==
    [][IF Appends
       THEN /\ Len(history') = Len(history) + 1
            /\ SubSeq(history', 1, Len(history)) = history
            /\ Len(history'[Len(history')]) = Len(teams)
            /\ \A i \in 1..Len(teams) : history'[Len(history')][i].Team = teams[i]
            /\ round_decisions' = << >>
            /\ submitted_teams' = {}
            /\ IF current_round < LastRound
               THEN current_round' = current_round + 1 /\ game_over' = game_over
               ELSE current_round' = current_round /\ game_over' = TRUE
            /\ Len(round_decisions) = Len(teams)
            /\ Len(decision_history') = Len(decision_history) + Len(teams)
            /\ \A i \in 1..Len(round_decisions) :
                  \E j \in (Len(decision_history) + 1)..Len(decision_history') :
                      /\ decision_history'[j].Round = current_round
                      /\ decision_history'[j].Team = round_decisions[i].team
                      /\ AuditDecision(decision_history'[j]) = round_decisions[i].dec
       ELSE UNCHANGED <<history, current_round, game_over, companies, decision_history>>]_vars

C18_RoundTwoResolved ==
    /\ ret = "True"
    /\ Len(history) = 2
    /\ current_round = 3
    /\ ~game_over
    /\ round_decisions = << >>
    /\ submitted_teams = {}
    /\ Len(decision_history) = 2 * Len(teams)

\* the factories a team built in the given rounds, by the audit
FactoryCount(name, rounds) ==
    Cardinality({i \in 1..Len(decision_history) :
                    /\ decision_history[i].Team = name
                    /\ decision_history[i].Factory = "Yes"
                    /\ decision_history[i].Round \in rounds})

\* 1.1 to the power n
CapacityPower[n \in Nat] == IF n = 0 THEN ROne ELSE RMul[CapacityPower[n - 1], RatOf[11, 10]]

\* the weights of a team in round k by the rule of the claim: its two ratios times
\* 1.1 to the number of factories it built in round k - 2 or earlier
RuleWeights ==
    [name \in TeamSet |->
        LET d == round_decisions[CHOOSE i \in 1..Len(round_decisions) :
                                     round_decisions[i].team = name].dec
            m == CapacityPower[FactoryCount(name, 1..(current_round - 2))]
        IN  [low |-> RMul[d.low_ratio, m], high |-> RMul[d.high_ratio, m]]]

\* C19: the capacity multiplier of a company in round k is 1.1 to the number of
\* factories it built in round k - 2 or earlier, and 1 when there is none: a factory
\* built in round r counts from round r + 2 on, not in rounds r and r + 1.  This
\* multiplier is the one applied to the demand weights of the round: the shares of
\* the report are those settled from the ratios times it.
C19_FactoryMultiplier ==
    [][Appends =>
        \A name \in TeamSet :
            ~companies[name].is_bankrupt =>
                LET row == RowOf(history'[Len(history')], name)
                IN  /\ get_multiplier_data(companies[name], current_round).mult =
                           CapacityPower[FactoryCount(name, 1..(current_round - 2))]
                    /\ row.Low_Share =
                           Smoothed(companies[name].prev_low_share,
                                    RawShare(RuleWeights[name].low, SumLow(RuleWeights)))
                    /\ row.High_Share =
                           Smoothed(companies[name].prev_high_share,
                                    RawShare(RuleWeights[name].high, SumHigh(RuleWeights)))]_vars

C19_TwoFactoriesCount ==
    /\ Len(history) = LastRound
    /\ ret = "True"
    /\ FactoryCount("Team 2", 1..LastRound) = LastRound
    /\ get_multiplier_data(companies["Team 2"], LastRound).mult = RatOf[121, 100]
    /\ FactoryCount("Team 1", 1..2) = 0
    /\ FactoryCount("Team 1", {3, 4}) = 2
    /\ get_multiplier_data(companies["Team 1"], LastRound).mult = ROne

\* C20: in a game played on the page (decisions of the form: low_ratio in [0, 1],
\* high_ratio = 1 - low_ratio, any investment), through its four rounds no company's
\* cash is below 0, after any round, so no company is bankrupt and no report has a
\* "Bankrupt" row.
C20_NoBankruptcyInGame ==
    /\ Len(history) <= LastRound
    /\ \A name \in TeamSet :
          /\ ~companies[name].is_bankrupt
          /\ RSign[companies[name].cash] >= 0
          /\ \A i \in 1..Len(history) :
                /\ RowOf(history[i], name).Factory # "Bankrupt"
                /\ RSign[RowOf(history[i], name).Cash_Balance] >= 0

C20_GameWithLosses ==
    /\ game_over
    /\ Len(history) = LastRound
    /\ LossIn(history[LastRound - 1], "Team 1")
    /\ LossIn(history[LastRound], "Team 1")
    /\ RLess[companies["Team 1"].cash, RowOf(history[LastRound - 2], "Team 1").Cash_Balance]
    /\ FactoryCount("Team 1", 1..LastRound) >= 2

====
